---- MODULE Spec2Model ----
(***************************************************************************)
(* The CAPTCHA solving server of lyestz/captv2: the asynchronous start-up  *)
(* of the shared Tesseract worker, the /solve-captcha request handler cut  *)
(* at its await points, and the image pipeline the handler runs between    *)
(* them (central-ROI polarity detection, Otsu-style threshold selection,   *)
(* negate + threshold through sharp).                                      *)
(*                                                                         *)
(* Three builds of the server are in the repository.  src/server.js and    *)
(* src/unnamed/part_001 await tesseractReadyPromise at the top of the      *)
(* handler; src/unnamed/part_000 does not keep the promise and guards the  *)
(* route with authMiddleware.  The variable build says which one runs.     *)
(*                                                                         *)
(* Arithmetic: the JavaScript numbers of otsuLike are modelled as exact    *)
(* rationals (a between-class variance is the triple <<i, f, p>> standing  *)
(* for i + f/p), not as IEEE doubles.                                      *)
(***************************************************************************)
EXTENDS Integers, Sequences, FiniteSets

\* ------------------------------------------------------------------ bounds

\* Number of /solve-captcha requests that may be in flight together.
NumRequests == 2

\* Largest number of pixels (width * height) of an arbitrary raster.
MaxPixels == 4

\* ------------------------------------------------------- program constants

\* new Array(256): one histogram bin per intensity 0..255.
Levels == 256

\* const threshold = 128: the polarity cut on the ROI mean.
PolarityCut == 128

\* roiCount > 0 ? roiSum / roiCount : 128
NeutralMean == 128

Req == 1..NumRequests

\* The intensities an arbitrary raster is drawn from: a dark and a bright
\* value and the two values either side of the polarity cut, a set closed
\* under v |-> 255 - v.
Samples == {20, 127, 128, 235}

\* The two populations of the end-to-end scenario: background and block.
ScenarioValues == <<20, 230>>

DarkValue == ScenarioValues[1]

BrightValue == ScenarioValues[2]

\* ------------------------------------------------------------------ rasters

Raster(w, h, d) == [width |-> w, height |-> h, data |-> d]

\* A raster that is not there yet (let data; before the await resolves).
NoRaster == Raster(0, 0, <<>>)

\* data[y * width + x], the model's sequences being 1-based.
Pixel(img, x, y) == img.data[y * img.width + x + 1]

RECURSIVE SumSeq(_)
SumSeq(s) == IF s = <<>> THEN 0 ELSE Head(s) + SumSeq(Tail(s))

\* Math.floor(n * 0.25) and Math.floor(n * 0.75).
RoiStart(n) == n \div 4

\* The slip of rounding the right edge up instead of down.
RoiEndMutantCeil(n) == (3 * n + 3) \div 4

RoiEnd(n) == (3 * n) \div 4

\* The pixels the two nested ROI loops visit.
RoiCells(img) ==
    {c \in (RoiStart(img.width)..(RoiEnd(img.width) - 1))
           \X (RoiStart(img.height)..(RoiEnd(img.height) - 1)) : TRUE}

RECURSIVE SumCells(_, _)
SumCells(img, cells) ==
    IF cells = {} THEN 0
    ELSE LET c == CHOOSE c \in cells : TRUE
         IN  Pixel(img, c[1], c[2]) + SumCells(img, cells \ {c})

RoiCount(img) == Cardinality(RoiCells(img))

RoiSum(img) == SumCells(img, RoiCells(img))

\* avgROIGray as the fraction <<numerator, denominator>>.
AvgROIGray(img) ==
    IF RoiCount(img) > 0 THEN <<RoiSum(img), RoiCount(img)>> ELSE <<NeutralMean, 1>>

\* numbersAreLighter = avgROIGray > threshold
NumbersAreLighter(img) ==
    LET avg == AvgROIGray(img) IN avg[1] > PolarityCut * avg[2]

\* ------------------------------------------------------ threshold selector

\* for (let i = 0; i < grayData.length; i++) hist[grayData[i]]++
RECURSIVE HistFrom(_, _, _)
HistFrom(hist, d, i) ==
    IF i > Len(d) THEN hist ELSE HistFrom([hist EXCEPT ![d[i]] = @ + 1], d, i + 1)

\* new Array(256).fill(0), then the counting loop.
Hist(d) == HistFrom([v \in 0..(Levels - 1) |-> 0], d, 1)

\* The slip of taking the foreground mean from the whole sum.
BetweenVarMutantNoSubtract(wB, wF, sumB, sum) ==
    LET p == wB * wF
        D == sumB * wF - sum * wB
        a == IF D < 0 THEN 0 - D ELSE D
        q == a \div p
        r == a % p
    IN  <<q * q * p + 2 * q * r + ((r * r) \div p), (r * r) % p, p>>

\* wB * wF * (mB - mF) ** 2 with mB = sumB / wB and mF = sumF / wF, exactly:
\* D^2 / p for D = sumB * wF - sumF * wB and p = wB * wF, kept as the mixed
\* number <<i, f, p>> = i + f/p so that no product leaves TLC's integers.
BetweenVar(wB, wF, sumB, sum) ==
    LET p == wB * wF
        D == sumB * wF - (sum - sumB) * wB
        a == IF D < 0 THEN 0 - D ELSE D
        q == a \div p
        r == a % p
    IN  <<q * q * p + 2 * q * r + ((r * r) \div p), (r * r) % p, p>>

\* let varMax = 0
ZeroVar == <<0, 0, 1>>

VarGt(x, y) == x[1] > y[1] \/ (x[1] = y[1] /\ x[2] * y[3] > y[2] * x[3])

\* The slip of writing >= for >.
BetterMutantOrEqual(betweenVar, varMax) == ~VarGt(varMax, betweenVar)

\* if (betweenVar > varMax)
Better(betweenVar, varMax) == VarGt(betweenVar, varMax)

\* let sumB = 0, wB = 0, wF = 0, varMax = 0, threshold = 0; stopped is the
\* break having been taken.
ScanStart == [wB |-> 0, sumB |-> 0, varMax |-> ZeroVar, threshold |-> 0, stopped |-> FALSE]

\* One turn of for (let t = 0; t < 256; t++): continue while wB is 0, break
\* when wF is 0, otherwise accumulate sumB and keep a strictly better t.
OtsuStep(hist, total, sum, st, t) ==
    IF st.stopped THEN st
    ELSE LET wB == st.wB + hist[t]
         IN  IF wB = 0 THEN [st EXCEPT !.wB = wB]
             ELSE LET wF == total - wB
                  IN  IF wF = 0 THEN [st EXCEPT !.wB = wB, !.stopped = TRUE]
                      ELSE LET sumB == st.sumB + t * hist[t]
                               betweenVar == BetweenVar(wB, wF, sumB, sum)
                           IN  IF Better(betweenVar, st.varMax)
                               THEN [st EXCEPT !.wB = wB, !.sumB = sumB,
                                               !.varMax = betweenVar, !.threshold = t]
                               ELSE [st EXCEPT !.wB = wB, !.sumB = sumB]

\* The turns lo..hi of the loop in ascending order (split in halves only to
\* keep the evaluation shallow).
RECURSIVE OtsuScan(_, _, _, _, _, _)
OtsuScan(hist, total, sum, st, lo, hi) ==
    IF lo = hi THEN OtsuStep(hist, total, sum, st, lo)
    ELSE LET mid == (lo + hi) \div 2
             left == OtsuScan(hist, total, sum, st, lo, mid)
         IN  IF left.stopped THEN left
             ELSE OtsuScan(hist, total, sum, left, mid + 1, hi)

\* otsuLike(grayData) of server.js and part_000, otsuThreshold(data) of part_001.
otsuLike(d) ==
    OtsuScan(Hist(d), Len(d), SumSeq(d), ScanStart, 0, Levels - 1).threshold

\* ---------------------------------------------------------------- binarizer

\* sharp's negate() on a single-channel 8-bit raster.
Negate(v) == (Levels - 1) - v

\* sharp's threshold(t): a sample greater than or equal to t becomes 255 and
\* any other 0; a threshold of 0 is sharp's "no threshold" setting (what
\* threshold(false) stores), and the operation is then not applied at all.
Threshold(v, t) == IF t > 0 THEN (IF v >= t THEN Levels - 1 ELSE 0) ELSE v

\* sharp(data, {raw}) [.negate()] .threshold(t): same width and height.
Binarize(img, lighter, t) ==
    Raster(img.width, img.height,
           [i \in 1..Len(img.data) |->
               Threshold(IF lighter THEN Negate(img.data[i]) ELSE img.data[i], t)])

\* The pixel-wise inversion of a raster (an input image and its negative).
Invert(img) ==
    Raster(img.width, img.height, [i \in 1..Len(img.data) |-> Negate(img.data[i])])

\* -------------------------------------------------------------------- state

VARIABLES
    build,                  \* "server" (server.js, part_001) or "vercel" (part_000)
    initPc,                 \* where initializeTesseractWorker() stands
    tesseractWorker,        \* let tesseractWorker: "undefined" or "worker"
    isTesseractWorkerReady, \* let isTesseractWorkerReady = false
    pc,                     \* per request: the await its handler is suspended on
    imageUrl,               \* per request: the form of req.body.imageUrl
    input,                  \* per request: the raster its image normalizes to
    data,                   \* per request: const { data, info }
    numbersAreLighter,      \* per request: const numbersAreLighter
    threshold,              \* per request: otsuLike(data)
    finalImage,             \* per request: the raster inside finalImageBuffer
    responses,              \* per request: the responses written to res
    arrivedInit,            \* history: the flag was false when the handler was entered
    passed,                 \* history: the request passed both early checks
    failed                  \* history: a step inside the try block threw

vars == <<build, initPc, tesseractWorker, isTesseractWorkerReady, pc, imageUrl,
          input, data, numbersAreLighter, threshold, finalImage, responses,
          arrivedInit, passed, failed>>

initVars == <<initPc, tesseractWorker, isTesseractWorkerReady>>

pipeVars == <<data, numbersAreLighter, threshold, finalImage>>

Builds == {"server", "vercel"}

\* The awaits of initializeTesseractWorker, in order.
InitAwaits == <<"createWorker", "loadLanguage", "initialize", "setParameters">>

\* req.body.imageUrl: absent, a data:image URL with or without a payload
\* after its comma, an http URL, anything else.
UrlForms == {"missing", "data", "dataNoPayload", "http", "other"}

Response(status, text) == [status |-> status, text |-> text]

\* res.status(s).json(...)
Reply(r, status, text) ==
    responses' = [responses EXCEPT ![r] = Append(@, Response(status, text))]

\* process.exit(1) was called: no code of the process runs any more.
Exited == initPc = "exited"

\* ------------------------------------------------------------------ inputs

\* Every raster of at most MaxPixels pixels over Samples.
Rasters ==
    UNION {{Raster(d[1], d[2], px) : px \in [1..(d[1] * d[2]) -> Samples]} :
           d \in {d \in (1..MaxPixels) \X (1..MaxPixels) : d[1] * d[2] <= MaxPixels}}

\* A dark raster with a bright block on the columns x1..x2-1, rows y1..y2-1.
BlockImage(w, h, x1, x2, y1, y2) ==
    Raster(w, h, [i \in 1..(w * h) |->
        LET x == (i - 1) % w
            y == (i - 1) \div w
        IN  IF x1 <= x /\ x < x2 /\ y1 <= y /\ y < y2 THEN BrightValue ELSE DarkValue])

\* Largest height of a scenario raster, its width being three times its
\* height as in the 180 x 60 image.
MaxScenarioHeight == 4

\* The end-to-end scenario at small scale, from the smallest height whose
\* ROI holds a pixel: the block covers the whole ROI and leaves some surround.
ScenarioImages ==
    UNION {{BlockImage(3 * h, h, x1, x2, y1, y2) :
                x1 \in 0..RoiStart(3 * h), x2 \in RoiEnd(3 * h)..(3 * h),
                y1 \in 0..RoiStart(h), y2 \in RoiEnd(h)..h} \ {BlockImage(3 * h, h, 0, 3 * h, 0, h)} :
           h \in 2..MaxScenarioHeight}

\* The rasters the requests of the server specification carry (one of them,
\* the same for every request of a run).
ServerImages == {Raster(1, 1, <<127>>), Raster(2, 2, <<235, 20, 20, 128>>)}

\* ---------------------------------------------- initializeTesseractWorker

Init ==
    /\ build \in Builds
    /\ initPc = "createWorker"
    /\ tesseractWorker = "undefined"
    /\ isTesseractWorkerReady = FALSE
    /\ pc = [r \in Req |-> "idle"]
    /\ imageUrl = [r \in Req |-> "missing"]
    /\ \E A \in ServerImages : input = [r \in Req |-> A]
    /\ data = [r \in Req |-> NoRaster]
    /\ numbersAreLighter = [r \in Req |-> FALSE]
    /\ threshold = [r \in Req |-> 0]
    /\ finalImage = [r \in Req |-> NoRaster]
    /\ responses = [r \in Req |-> <<>>]
    /\ arrivedInit = [r \in Req |-> FALSE]
    /\ passed = [r \in Req |-> FALSE]
    /\ failed = [r \in Req |-> FALSE]

reqVars == <<pc, imageUrl, input, data, numbersAreLighter, threshold, finalImage,
             responses, arrivedInit, passed, failed>>

\* One of the first three awaits resolves.
InitAwait ==
    /\ \E i \in 1..3 : initPc = InitAwaits[i] /\ initPc' = InitAwaits[i + 1]
    /\ UNCHANGED <<build, tesseractWorker, isTesseractWorkerReady, reqVars>>

\* The slip of raising the flag without publishing the worker.
MarkReadyMutantFlagOnly ==
    /\ tesseractWorker' = tesseractWorker
    /\ isTesseractWorkerReady' = TRUE

\* tesseractWorker = worker; isTesseractWorkerReady = true; (one turn, no await)
MarkReady ==
    /\ tesseractWorker' = "worker"
    /\ isTesseractWorkerReady' = TRUE

\* setParameters resolves: the worker is published and the promise resolves.
InitReady ==
    /\ initPc = "setParameters"
    /\ initPc' = "done"
    /\ MarkReady
    /\ UNCHANGED <<build, reqVars>>

\* Any of the four awaits rejects: catch, process.exit(1).
InitFail ==
    /\ \E i \in 1..4 : initPc = InitAwaits[i]
    /\ initPc' = "exited"
    /\ UNCHANGED <<build, tesseractWorker, isTesseractWorkerReady, reqVars>>

\* ------------------------------------------------ app.post('/solve-captcha')

\* The slip of answering with whatever text there is after a failure.
CatchMutantPartialText(r) ==
    /\ Reply(r, 200, TRUE)
    /\ pc' = [pc EXCEPT ![r] = "done"]
    /\ failed' = [failed EXCEPT ![r] = TRUE]

\* catch (error) { res.status(500).json({ error: ... }) }
Catch(r) ==
    /\ Reply(r, 500, FALSE)
    /\ pc' = [pc EXCEPT ![r] = "done"]
    /\ failed' = [failed EXCEPT ![r] = TRUE]

\* The handler from its readiness check to its first await inside the try
\* block: 503, 400, or the dispatch on the form of imageUrl.
Entry(r, url) ==
    IF ~isTesseractWorkerReady
    THEN Reply(r, 503, FALSE) /\ pc' = [pc EXCEPT ![r] = "done"]
         /\ UNCHANGED <<passed, failed>>
    ELSE IF url = "missing"
    THEN Reply(r, 400, FALSE) /\ pc' = [pc EXCEPT ![r] = "done"]
         /\ UNCHANGED <<passed, failed>>
    ELSE /\ passed' = [passed EXCEPT ![r] = TRUE]
         /\ CASE url = "data" ->
                   \* Buffer.from(base64Data); sharp(...).raw().toBuffer() awaited
                   pc' = [pc EXCEPT ![r] = "normalize"] /\ UNCHANGED <<responses, failed>>
              [] url = "http" ->
                   \* await fetch(imageUrl)
                   pc' = [pc EXCEPT ![r] = "fetch"] /\ UNCHANGED <<responses, failed>>
              [] OTHER ->
                   \* Buffer.from(undefined) throws; 'Invalid imageUrl format.'
                   Catch(r)

\* A request comes in.  server.js and part_001 suspend it on
\* tesseractReadyPromise; part_000 runs authMiddleware and then the handler
\* up to its first await.
Arrive(r) ==
    /\ ~Exited
    /\ pc[r] = "idle"
    /\ \E url \in UrlForms, authorized \in BOOLEAN :
         /\ imageUrl' = [imageUrl EXCEPT ![r] = url]
         /\ arrivedInit' = [arrivedInit EXCEPT ![r] =
                               ~isTesseractWorkerReady /\ (build = "server" \/ authorized)]
         /\ IF build = "server"
            THEN pc' = [pc EXCEPT ![r] = "awaitReady"]
                 /\ UNCHANGED <<responses, passed, failed>>
            ELSE IF ~authorized
            THEN Reply(r, 401, FALSE) /\ pc' = [pc EXCEPT ![r] = "done"]
                 /\ UNCHANGED <<passed, failed>>
            ELSE Entry(r, url)
    /\ UNCHANGED <<build, initVars, input, pipeVars>>

\* await tesseractReadyPromise resumes: only once the promise has resolved.
AfterReady(r) ==
    /\ ~Exited
    /\ pc[r] = "awaitReady"
    /\ initPc = "done"
    /\ Entry(r, imageUrl[r])
    /\ UNCHANGED <<build, initVars, imageUrl, input, pipeVars, arrivedInit>>

\* A step inside the try block throws or its promise rejects: fetch fails or
\* the response is not ok, buffer() rejects, sharp cannot decode or encode,
\* recognize rejects.
StepRejected(r) ==
    /\ ~Exited
    /\ pc[r] \in {"fetch", "body", "normalize", "encode", "recognize"}
    /\ Catch(r)
    /\ UNCHANGED <<build, initVars, imageUrl, input, pipeVars, arrivedInit, passed>>

\* fetch resolves with an ok response: await imageResponse.buffer().
FetchResolved(r) ==
    /\ ~Exited
    /\ pc[r] = "fetch"
    /\ pc' = [pc EXCEPT ![r] = "body"]
    /\ UNCHANGED <<build, initVars, imageUrl, input, pipeVars, responses,
                   arrivedInit, passed, failed>>

\* buffer() resolves: sharp(imageBuffer)...raw().toBuffer() is awaited.
BodyResolved(r) ==
    /\ ~Exited
    /\ pc[r] = "body"
    /\ pc' = [pc EXCEPT ![r] = "normalize"]
    /\ UNCHANGED <<build, initVars, imageUrl, input, pipeVars, responses,
                   arrivedInit, passed, failed>>

\* The normalized raster arrives: the ROI mean, the polarity and the
\* threshold are computed in the same turn, and the second sharp pipeline
\* ([negate,] threshold, png) is awaited.
NormalizeResolved(r) ==
    /\ ~Exited
    /\ pc[r] = "normalize"
    /\ data' = [data EXCEPT ![r] = input[r]]
    /\ numbersAreLighter' = [numbersAreLighter EXCEPT ![r] = NumbersAreLighter(input[r])]
    /\ threshold' = [threshold EXCEPT ![r] = otsuLike(input[r].data)]
    /\ pc' = [pc EXCEPT ![r] = "encode"]
    /\ UNCHANGED <<build, initVars, imageUrl, input, finalImage, responses,
                   arrivedInit, passed, failed>>

\* The binarized PNG arrives: tesseractWorker.recognize(finalImageBuffer).
EncodeResolved(r) ==
    /\ ~Exited
    /\ pc[r] = "encode"
    /\ finalImage' = [finalImage EXCEPT ![r] =
                         Binarize(data[r], numbersAreLighter[r], threshold[r])]
    /\ pc' = [pc EXCEPT ![r] = "recognize"]
    /\ UNCHANGED <<build, initVars, imageUrl, input, data, numbersAreLighter,
                   threshold, responses, arrivedInit, passed, failed>>

\* recognize resolves: res.json({ text: cleanedText }).
RecognizeResolved(r) ==
    /\ ~Exited
    /\ pc[r] = "recognize"
    /\ Reply(r, 200, TRUE)
    /\ pc' = [pc EXCEPT ![r] = "done"]
    /\ UNCHANGED <<build, initVars, imageUrl, input, pipeVars, arrivedInit,
                   passed, failed>>

Next ==
    \/ InitAwait
    \/ InitReady
    \/ InitFail
    \/ \E r \in Req : Arrive(r)
    \/ \E r \in Req : AfterReady(r)
    \/ \E r \in Req : StepRejected(r)
    \/ \E r \in Req : FetchResolved(r)
    \/ \E r \in Req : BodyResolved(r)
    \/ \E r \in Req : NormalizeResolved(r)
    \/ \E r \in Req : EncodeResolved(r)
    \/ \E r \in Req : RecognizeResolved(r)

Spec == Init /\ [][Next]_vars

\* ------------------------------------------------- the pipeline on its own

\* The two requests of the pipeline specification: the first carries a
\* raster A, the second its pixel-wise inversion.
PipeReq == {r \in Req : r <= 2}

\* The worker is ready and both requests are suspended on the normalizer.
InitPipe ==
    /\ build = "server"
    /\ initPc = "done"
    /\ tesseractWorker = "worker"
    /\ isTesseractWorkerReady = TRUE
    /\ pc = [r \in Req |-> IF r \in PipeReq THEN "normalize" ELSE "idle"]
    /\ imageUrl = [r \in Req |-> "data"]
    /\ \E A \in Rasters \cup ScenarioImages :
         input = [r \in Req |-> IF r = 2 THEN Invert(A) ELSE A]
    /\ data = [r \in Req |-> NoRaster]
    /\ numbersAreLighter = [r \in Req |-> FALSE]
    /\ threshold = [r \in Req |-> 0]
    /\ finalImage = [r \in Req |-> NoRaster]
    /\ responses = [r \in Req |-> <<>>]
    /\ arrivedInit = [r \in Req |-> FALSE]
    /\ passed = [r \in Req |-> r \in PipeReq]
    /\ failed = [r \in Req |-> FALSE]

NextPipe ==
    \/ \E r \in Req : NormalizeResolved(r)
    \/ \E r \in Req : EncodeResolved(r)

PipeSpec == InitPipe /\ [][NextPipe]_vars

\* ---------------------------------------------------- the claims' vocabulary

\* The raster as a multiset: each intensity present with its pixel count.
Weights(d) ==
    {<<v, Cardinality({i \in 1..Len(d) : d[i] = v})>> : v \in {d[i] : i \in 1..Len(d)}}

RECURSIVE CountOf(_)
CountOf(W) ==
    IF W = {} THEN 0
    ELSE LET x == CHOOSE x \in W : TRUE IN x[2] + CountOf(W \ {x})

RECURSIVE MassOf(_)
MassOf(W) ==
    IF W = {} THEN 0
    ELSE LET x == CHOOSE x \in W : TRUE IN x[1] * x[2] + MassOf(W \ {x})

\* n^2 / p as the mixed number <<i, f, p>>.
SquareOver(n, p) ==
    LET a == IF n < 0 THEN 0 - n ELSE n
        q == a \div p
        r == a % p
    IN  <<q * q * p + 2 * q * r + ((r * r) \div p), (r * r) % p, p>>

\* The between-class variance wB * wF * (mB - mF)^2 of the bipartition
\* {pixels <= t} / {pixels > t}, 0 when either side is empty.
PartitionVar(W, t) ==
    LET B == {x \in W : x[1] <= t}
        F == {x \in W : x[1] > t}
    IN  IF B = {} \/ F = {} THEN <<0, 0, 1>>
        ELSE SquareOver(MassOf(B) * CountOf(F) - MassOf(F) * CountOf(B),
                        CountOf(B) * CountOf(F))

\* Two mixed numbers <<i, f, p>> are the same value.
VarEq(x, y) == x[1] = y[1] /\ x[2] * y[3] = y[2] * x[3]

Cuts == 0..(Levels - 1)

\* No cut point has a strictly greater variance than tStar.
Maximizes(W, tStar) ==
    LET best == PartitionVar(W, tStar)
    IN  \A t \in Cuts : ~VarGt(PartitionVar(W, t), best)

\* tStar maximizes and every smaller cut point has a strictly smaller variance.
SmallestMaximizer(W, tStar) ==
    LET best == PartitionVar(W, tStar)
    IN  \A t \in Cuts : IF t < tStar THEN VarGt(best, PartitionVar(W, t))
                                     ELSE ~VarGt(PartitionVar(W, t), best)

\* The selector has just returned for request r.
Selected(r) == pc[r] = "encode"

\* The binarizer has just produced the raster of request r.
Binarized(r) == pc[r] = "recognize"

\* --------------------------------------------------------------- the claims

\* C1 (threshold optimality): the threshold the selector returns for a buffer
\* has a between-class variance that no cut point t in 0..255 exceeds.
C1_ThresholdOptimality ==
    \A r \in Req : Selected(r) => Maximizes(Weights(data[r].data), threshold[r])

\* C1 witness: a selection with a positive threshold that beats a cut point
\* whose own variance is positive.
C1_Witness ==
    \E r \in Req :
        /\ Selected(r)
        /\ threshold[r] > 0
        /\ LET W == Weights(data[r].data)
           IN  \E t \in Samples :
                  /\ VarGt(PartitionVar(W, threshold[r]), PartitionVar(W, t))
                  /\ VarGt(PartitionVar(W, t), ZeroVar)

\* C2 (polarity symmetry), as claimed: for a buffer and its pixel-wise
\* inversion the polarity decisions are opposite and the two binarized
\* rasters are equal sample for sample.
C2_PolaritySymmetry ==
    (Binarized(1) /\ Binarized(2)) =>
        /\ numbersAreLighter[2] = ~numbersAreLighter[1]
        /\ finalImage[1] = finalImage[2]

\* C3 (end-to-end scenario), as claimed: on a dark (20) raster whose bright
\* (230) block covers the ROI the polarity is "lighter", the threshold lies
\* in 20..229, and the output is 0 on the block and 255 on the surround.
C3_EndToEnd ==
    (input[1] \in ScenarioImages /\ Binarized(1)) =>
        /\ numbersAreLighter[1]
        /\ DarkValue <= threshold[1] /\ threshold[1] < BrightValue
        /\ \A i \in 1..Len(data[1].data) :
              finalImage[1].data[i] = IF data[1].data[i] = BrightValue THEN 0 ELSE Levels - 1

\* C4 (binary output invariant), as claimed: every sample of the binarizer's
\* output is 0 or 255, and the output has the width and height of the
\* normalized buffer.
C4_BinaryOutput ==
    \A r \in Req : Binarized(r) =>
        /\ finalImage[r].width = data[r].width
        /\ finalImage[r].height = data[r].height
        /\ Len(finalImage[r].data) = data[r].width * data[r].height
        /\ \A i \in 1..Len(finalImage[r].data) : finalImage[r].data[i] \in {0, Levels - 1}

\* C5 (unavailable engine), as claimed: a request that enters the handler
\* while the worker is initializing is answered at once with 503.
C5_UnavailableEngine ==
    \A r \in Req : (arrivedInit[r] /\ pc[r] # "idle") =>
        responses[r] = <<Response(503, FALSE)>>

\* C6 (serialized OCR access), as claimed: at most one recognize call is in
\* progress on the shared worker at any time.
C6_SerializedOcr ==
    Cardinality({r \in Req : pc[r] = "recognize"}) <= 1

InCentralBox(img, x, y) ==
    /\ 4 * (x + 1) > img.width /\ 4 * (x + 1) <= 3 * img.width
    /\ 4 * (y + 1) > img.height /\ 4 * (y + 1) <= 3 * img.height

CentralBox(img) ==
    {c \in (0..(img.width - 1)) \X (0..(img.height - 1)) : InCentralBox(img, c[1], c[2])}

\* C8 (ROI degenerate case), as claimed: a width or a height below 4 makes
\* the ROI empty and numbersAreLighter false.
C8_RoiDegenerateBelowFour ==
    \A r \in Req : (Selected(r) /\ (data[r].width < 4 \/ data[r].height < 4)) =>
        /\ RoiCount(data[r]) = 0
        /\ ~numbersAreLighter[r]

\* C8 as amended: a width or a height of 1 makes the ROI empty and
\* numbersAreLighter false whatever the pixels are; with a width and a
\* height of at least 2 the ROI holds a pixel.
C8_RoiDegenerate ==
    \A r \in Req : Selected(r) =>
        IF data[r].width = 1 \/ data[r].height = 1
        THEN RoiCount(data[r]) = 0 /\ ~numbersAreLighter[r]
        ELSE RoiCount(data[r]) > 0 /\ RoiCells(data[r]) = CentralBox(data[r])

\* C8 witness: an all-bright raster one pixel wide or high, judged not lighter.
C8_Witness ==
    \E r \in Req :
        /\ Selected(r)
        /\ data[r].width = 1 \/ data[r].height = 1
        /\ Len(data[r].data) > 1
        /\ \A i \in 1..Len(data[r].data) : data[r].data[i] > PolarityCut
        /\ ~numbersAreLighter[r]

\* C9 (error propagation): a request gets at most one response, exactly one
\* once its handler has returned; if it passed the early checks and a step
\* failed, that response is the 500 without text; a response with text is
\* sent only when no step failed and both rasters were produced.
C9_ErrorPropagation ==
    \A r \in Req :
        /\ Len(responses[r]) <= 1
        /\ pc[r] = "done" => Len(responses[r]) = 1
        /\ (passed[r] /\ failed[r]) => responses[r] = <<Response(500, FALSE)>>
        /\ \A i \in 1..Len(responses[r]) :
              responses[r][i].text =>
                 /\ passed[r] /\ ~failed[r]
                 /\ responses[r][i].status = 200
                 /\ data[r] # NoRaster /\ finalImage[r] # NoRaster

\* C9 witness: one request failed in a step after its remote fetch had
\* started and got the 500, another one got its text.
C9_Witness ==
    \E r, q \in Req :
        /\ imageUrl[r] = "http" /\ passed[r] /\ failed[r] /\ pc[r] = "done"
        /\ responses[r] = <<Response(500, FALSE)>>
        /\ responses[q] = <<Response(200, TRUE)>>

\* C10 (readiness implies a usable worker): the flag never goes back to
\* false, a true flag means the worker handle is assigned, a handler past
\* the readiness check runs with the flag true, and once the process has
\* exited no request moves or is answered.
C10_ReadyImpliesWorker ==
    /\ [](/\ isTesseractWorkerReady => tesseractWorker = "worker"
          /\ \A r \in Req :
                pc[r] \in {"fetch", "body", "normalize", "encode", "recognize"} =>
                    isTesseractWorkerReady /\ tesseractWorker = "worker"
          /\ Exited => ~isTesseractWorkerReady)
    /\ [][/\ isTesseractWorkerReady => isTesseractWorkerReady'
          /\ Exited => (pc' = pc /\ responses' = responses)]_vars

\* C10 witness: the flag is set and a recognize call is in progress.
C10_Witness ==
    /\ isTesseractWorkerReady
    /\ \E r \in Req : pc[r] = "recognize"

====
